---------------------------- MODULE Spec2Model ----------------------------
(***************************************************************************)
(* A model of the go-money amount parser (package parser).                 *)
(*                                                                         *)
(* Strings are sequences of runes, a rune is its Unicode code point (as in *)
(* Go, where rune = int32), so '0' is 48, '.' is 46 and "1,5" is           *)
(* <<49, 44, 53>>.  Only valid UTF-8 strings are modelled.                  *)
(*                                                                         *)
(* An int64 is a sequence of 8 limbs of 8 bits, least significant first,   *)
(* in two's complement: the arithmetic of the parser wraps modulo 2^64     *)
(* exactly as Go's does.                                                   *)
(***************************************************************************)
EXTENDS Integers, Sequences, FiniteSets, TLC

VARIABLES
    opts,        \* the options handed to NewAmountParser, in order
    p,           \* the *AmountParser (its opt field), or Nil before construction
    currencies,  \* the currency table of package money
    calls        \* per goroutine: one Parse call, its locals and its result

vars == <<opts, p, currencies, calls>>

Nil == "nil"

---------------------------------------------------------------------------
(* Runes and strings                                                       *)

nbsp == 160
space == 32
minusSign == 8722
plusSign == 43
hyphenSign == 45

\* utf8.RuneError, what DecodeRuneInString returns for the empty string
RuneError == 65533

\* The number of bytes of a rune's UTF-8 encoding
RuneLen(r) == IF r < 128 THEN 1 ELSE IF r < 2048 THEN 2 ELSE IF r < 65536 THEN 3 ELSE 4

RECURSIVE ByteLen(_)
\* len(s) of a Go string: its length in bytes
ByteLen(s) == IF s = <<>> THEN 0 ELSE RuneLen(Head(s)) + ByteLen(Tail(s))

\* unicode.IsSpace
IsSpace(r) ==
    \/ r \in 9..13
    \/ r \in {32, 133, 160, 5760, 8232, 8233, 8239, 8287, 12288}
    \/ r \in 8192..8202

RECURSIVE TrimLeft(_)
TrimLeft(s) == IF s # <<>> /\ IsSpace(Head(s)) THEN TrimLeft(Tail(s)) ELSE s

RECURSIVE TrimRight(_)
TrimRight(s) ==
    IF s # <<>> /\ IsSpace(s[Len(s)]) THEN TrimRight(SubSeq(s, 1, Len(s) - 1)) ELSE s

\* strings.TrimSpace
TrimSpace(s) == TrimRight(TrimLeft(s))

\* strings.Index, as a 1-based rune position; 0 when t does not occur in s
Index(s, t) ==
    IF \E i \in 1..(Len(s) - Len(t) + 1) : SubSeq(s, i, i + Len(t) - 1) = t
    THEN CHOOSE i \in 1..(Len(s) - Len(t) + 1) :
            /\ SubSeq(s, i, i + Len(t) - 1) = t
            /\ \A j \in 1..(i - 1) : SubSeq(s, j, j + Len(t) - 1) # t
    ELSE 0

\* strings.Contains
Contains(s, t) == Index(s, t) # 0

\* strings.Replace(s, old, "", 1): the first occurrence of old is cut out
ReplaceFirst(s, old) ==
    LET i == Index(s, old)
    IN IF i = 0 THEN s ELSE SubSeq(s, 1, i - 1) \o SubSeq(s, i + Len(old), Len(s))

\* strings.ReplaceAll(s, old, new) for one-rune old and new
ReplaceAllRune(s, old, new) == [i \in 1..Len(s) |-> IF s[i] = old THEN new ELSE s[i]]

\* unicode.CaseRanges, the lower-case side beyond ASCII: <<first, last,
\* stride, delta>>; a rune of a range maps to itself plus delta
LowerRanges ==
    { <<192, 214, 1, 32>>, <<216, 222, 1, 32>>, <<256, 302, 2, 1>>,
      <<304, 304, 1, -199>>, <<306, 310, 2, 1>>, <<313, 327, 2, 1>>,
      <<330, 374, 2, 1>>, <<376, 376, 1, -121>>, <<377, 381, 2, 1>>,
      <<385, 385, 1, 210>>, <<386, 388, 2, 1>>, <<390, 390, 1, 206>>,
      <<391, 391, 1, 1>>, <<393, 394, 1, 205>>, <<395, 395, 1, 1>>,
      <<398, 398, 1, 79>>, <<399, 399, 1, 202>>, <<400, 400, 1, 203>>,
      <<401, 401, 1, 1>>, <<403, 403, 1, 205>>, <<404, 404, 1, 207>>,
      <<406, 406, 1, 211>>, <<407, 407, 1, 209>>, <<408, 408, 1, 1>>,
      <<412, 412, 1, 211>>, <<413, 413, 1, 213>>, <<415, 415, 1, 214>>,
      <<416, 420, 2, 1>>, <<422, 422, 1, 218>>, <<423, 423, 1, 1>>,
      <<425, 425, 1, 218>>, <<428, 428, 1, 1>>, <<430, 430, 1, 218>>,
      <<431, 431, 1, 1>>, <<433, 434, 1, 217>>, <<435, 437, 2, 1>>,
      <<439, 439, 1, 219>>, <<440, 440, 1, 1>>, <<444, 444, 1, 1>>,
      <<452, 452, 1, 2>>, <<453, 453, 1, 1>>, <<455, 455, 1, 2>>,
      <<456, 456, 1, 1>>, <<458, 458, 1, 2>>, <<459, 475, 2, 1>>,
      <<478, 494, 2, 1>>, <<497, 497, 1, 2>>, <<498, 500, 2, 1>>,
      <<502, 502, 1, -97>>, <<503, 503, 1, -56>>, <<504, 542, 2, 1>>,
      <<544, 544, 1, -130>>, <<546, 562, 2, 1>>, <<570, 570, 1, 10795>>,
      <<571, 571, 1, 1>>, <<573, 573, 1, -163>>, <<574, 574, 1, 10792>>,
      <<577, 577, 1, 1>>, <<579, 579, 1, -195>>, <<580, 580, 1, 69>>,
      <<581, 581, 1, 71>>, <<582, 590, 2, 1>>, <<880, 882, 2, 1>>,
      <<886, 886, 1, 1>>, <<895, 895, 1, 116>>, <<902, 902, 1, 38>>,
      <<904, 906, 1, 37>>, <<908, 908, 1, 64>>, <<910, 911, 1, 63>>,
      <<913, 929, 1, 32>>, <<931, 939, 1, 32>>, <<975, 975, 1, 8>>,
      <<984, 1006, 2, 1>>, <<1012, 1012, 1, -60>>, <<1015, 1015, 1, 1>>,
      <<1017, 1017, 1, -7>>, <<1018, 1018, 1, 1>>, <<1021, 1023, 1, -130>>,
      <<1024, 1039, 1, 80>>, <<1040, 1071, 1, 32>>, <<1120, 1152, 2, 1>>,
      <<1162, 1214, 2, 1>>, <<1216, 1216, 1, 15>>, <<1217, 1229, 2, 1>>,
      <<1232, 1326, 2, 1>>, <<1329, 1366, 1, 48>>, <<4256, 4293, 1, 7264>>,
      <<4295, 4295, 1, 7264>>, <<4301, 4301, 1, 7264>>, <<5024, 5103, 1, 38864>>,
      <<5104, 5109, 1, 8>>, <<7312, 7354, 1, -3008>>, <<7357, 7359, 1, -3008>>,
      <<7680, 7828, 2, 1>>, <<7838, 7838, 1, -7615>>, <<7840, 7934, 2, 1>>,
      <<7944, 7951, 1, -8>>, <<7960, 7965, 1, -8>>, <<7976, 7983, 1, -8>>,
      <<7992, 7999, 1, -8>>, <<8008, 8013, 1, -8>>, <<8025, 8031, 2, -8>>,
      <<8040, 8047, 1, -8>>, <<8072, 8079, 1, -8>>, <<8088, 8095, 1, -8>>,
      <<8104, 8111, 1, -8>>, <<8120, 8121, 1, -8>>, <<8122, 8123, 1, -74>>,
      <<8124, 8124, 1, -9>>, <<8136, 8139, 1, -86>>, <<8140, 8140, 1, -9>>,
      <<8152, 8153, 1, -8>>, <<8154, 8155, 1, -100>>, <<8168, 8169, 1, -8>>,
      <<8170, 8171, 1, -112>>, <<8172, 8172, 1, -7>>, <<8184, 8185, 1, -128>>,
      <<8186, 8187, 1, -126>>, <<8188, 8188, 1, -9>>, <<8486, 8486, 1, -7517>>,
      <<8490, 8490, 1, -8383>>, <<8491, 8491, 1, -8262>>, <<8498, 8498, 1, 28>>,
      <<8544, 8559, 1, 16>>, <<8579, 8579, 1, 1>>, <<9398, 9423, 1, 26>>,
      <<11264, 11311, 1, 48>>, <<11360, 11360, 1, 1>>, <<11362, 11362, 1, -10743>>,
      <<11363, 11363, 1, -3814>>, <<11364, 11364, 1, -10727>>, <<11367, 11371, 2, 1>>,
      <<11373, 11373, 1, -10780>>, <<11374, 11374, 1, -10749>>, <<11375, 11375, 1, -10783>>,
      <<11376, 11376, 1, -10782>>, <<11378, 11378, 1, 1>>, <<11381, 11381, 1, 1>>,
      <<11390, 11391, 1, -10815>>, <<11392, 11490, 2, 1>>, <<11499, 11501, 2, 1>>,
      <<11506, 11506, 1, 1>>, <<42560, 42604, 2, 1>>, <<42624, 42650, 2, 1>>,
      <<42786, 42798, 2, 1>>, <<42802, 42862, 2, 1>>, <<42873, 42875, 2, 1>>,
      <<42877, 42877, 1, -35332>>, <<42878, 42886, 2, 1>>, <<42891, 42891, 1, 1>>,
      <<42893, 42893, 1, -42280>>, <<42896, 42898, 2, 1>>, <<42902, 42920, 2, 1>>,
      <<42922, 42922, 1, -42308>>, <<42923, 42923, 1, -42319>>, <<42924, 42924, 1, -42315>>,
      <<42925, 42925, 1, -42305>>, <<42926, 42926, 1, -42308>>, <<42928, 42928, 1, -42258>>,
      <<42929, 42929, 1, -42282>>, <<42930, 42930, 1, -42261>>, <<42931, 42931, 1, 928>>,
      <<42932, 42946, 2, 1>>, <<42948, 42948, 1, -48>>, <<42949, 42949, 1, -42307>>,
      <<42950, 42950, 1, -35384>>, <<42951, 42953, 2, 1>>, <<42960, 42960, 1, 1>>,
      <<42966, 42968, 2, 1>>, <<42997, 42997, 1, 1>>, <<65313, 65338, 1, 32>>,
      <<66560, 66599, 1, 40>>, <<66736, 66771, 1, 40>>, <<66928, 66938, 1, 39>>,
      <<66940, 66954, 1, 39>>, <<66956, 66962, 1, 39>>, <<66964, 66965, 1, 39>>,
      <<68736, 68786, 1, 64>>, <<71840, 71871, 1, 32>>, <<93760, 93791, 1, 32>>,
      <<125184, 125217, 1, 34>> }

\* unicode.CaseRanges, the upper-case side beyond ASCII
UpperRanges ==
    { <<181, 181, 1, 743>>, <<224, 246, 1, -32>>, <<248, 254, 1, -32>>,
      <<255, 255, 1, 121>>, <<257, 303, 2, -1>>, <<305, 305, 1, -232>>,
      <<307, 311, 2, -1>>, <<314, 328, 2, -1>>, <<331, 375, 2, -1>>,
      <<378, 382, 2, -1>>, <<383, 383, 1, -300>>, <<384, 384, 1, 195>>,
      <<387, 389, 2, -1>>, <<392, 392, 1, -1>>, <<396, 396, 1, -1>>,
      <<402, 402, 1, -1>>, <<405, 405, 1, 97>>, <<409, 409, 1, -1>>,
      <<410, 410, 1, 163>>, <<414, 414, 1, 130>>, <<417, 421, 2, -1>>,
      <<424, 424, 1, -1>>, <<429, 429, 1, -1>>, <<432, 432, 1, -1>>,
      <<436, 438, 2, -1>>, <<441, 441, 1, -1>>, <<445, 445, 1, -1>>,
      <<447, 447, 1, 56>>, <<453, 453, 1, -1>>, <<454, 454, 1, -2>>,
      <<456, 456, 1, -1>>, <<457, 457, 1, -2>>, <<459, 459, 1, -1>>,
      <<460, 460, 1, -2>>, <<462, 476, 2, -1>>, <<477, 477, 1, -79>>,
      <<479, 495, 2, -1>>, <<498, 498, 1, -1>>, <<499, 499, 1, -2>>,
      <<501, 501, 1, -1>>, <<505, 543, 2, -1>>, <<547, 563, 2, -1>>,
      <<572, 572, 1, -1>>, <<575, 576, 1, 10815>>, <<578, 578, 1, -1>>,
      <<583, 591, 2, -1>>, <<592, 592, 1, 10783>>, <<593, 593, 1, 10780>>,
      <<594, 594, 1, 10782>>, <<595, 595, 1, -210>>, <<596, 596, 1, -206>>,
      <<598, 599, 1, -205>>, <<601, 601, 1, -202>>, <<603, 603, 1, -203>>,
      <<604, 604, 1, 42319>>, <<608, 608, 1, -205>>, <<609, 609, 1, 42315>>,
      <<611, 611, 1, -207>>, <<613, 613, 1, 42280>>, <<614, 614, 1, 42308>>,
      <<616, 616, 1, -209>>, <<617, 617, 1, -211>>, <<618, 618, 1, 42308>>,
      <<619, 619, 1, 10743>>, <<620, 620, 1, 42305>>, <<623, 623, 1, -211>>,
      <<625, 625, 1, 10749>>, <<626, 626, 1, -213>>, <<629, 629, 1, -214>>,
      <<637, 637, 1, 10727>>, <<640, 640, 1, -218>>, <<642, 642, 1, 42307>>,
      <<643, 643, 1, -218>>, <<647, 647, 1, 42282>>, <<648, 648, 1, -218>>,
      <<649, 649, 1, -69>>, <<650, 651, 1, -217>>, <<652, 652, 1, -71>>,
      <<658, 658, 1, -219>>, <<669, 669, 1, 42261>>, <<670, 670, 1, 42258>>,
      <<837, 837, 1, 84>>, <<881, 883, 2, -1>>, <<887, 887, 1, -1>>,
      <<891, 893, 1, 130>>, <<940, 940, 1, -38>>, <<941, 943, 1, -37>>,
      <<945, 961, 1, -32>>, <<962, 962, 1, -31>>, <<963, 971, 1, -32>>,
      <<972, 972, 1, -64>>, <<973, 974, 1, -63>>, <<976, 976, 1, -62>>,
      <<977, 977, 1, -57>>, <<981, 981, 1, -47>>, <<982, 982, 1, -54>>,
      <<983, 983, 1, -8>>, <<985, 1007, 2, -1>>, <<1008, 1008, 1, -86>>,
      <<1009, 1009, 1, -80>>, <<1010, 1010, 1, 7>>, <<1011, 1011, 1, -116>>,
      <<1013, 1013, 1, -96>>, <<1016, 1016, 1, -1>>, <<1019, 1019, 1, -1>>,
      <<1072, 1103, 1, -32>>, <<1104, 1119, 1, -80>>, <<1121, 1153, 2, -1>>,
      <<1163, 1215, 2, -1>>, <<1218, 1230, 2, -1>>, <<1231, 1231, 1, -15>>,
      <<1233, 1327, 2, -1>>, <<1377, 1414, 1, -48>>, <<4304, 4346, 1, 3008>>,
      <<4349, 4351, 1, 3008>>, <<5112, 5117, 1, -8>>, <<7296, 7296, 1, -6254>>,
      <<7297, 7297, 1, -6253>>, <<7298, 7298, 1, -6244>>, <<7299, 7300, 1, -6242>>,
      <<7301, 7301, 1, -6243>>, <<7302, 7302, 1, -6236>>, <<7303, 7303, 1, -6181>>,
      <<7304, 7304, 1, 35266>>, <<7545, 7545, 1, 35332>>, <<7549, 7549, 1, 3814>>,
      <<7566, 7566, 1, 35384>>, <<7681, 7829, 2, -1>>, <<7835, 7835, 1, -59>>,
      <<7841, 7935, 2, -1>>, <<7936, 7943, 1, 8>>, <<7952, 7957, 1, 8>>,
      <<7968, 7975, 1, 8>>, <<7984, 7991, 1, 8>>, <<8000, 8005, 1, 8>>,
      <<8017, 8023, 2, 8>>, <<8032, 8039, 1, 8>>, <<8048, 8049, 1, 74>>,
      <<8050, 8053, 1, 86>>, <<8054, 8055, 1, 100>>, <<8056, 8057, 1, 128>>,
      <<8058, 8059, 1, 112>>, <<8060, 8061, 1, 126>>, <<8064, 8071, 1, 8>>,
      <<8080, 8087, 1, 8>>, <<8096, 8103, 1, 8>>, <<8112, 8113, 1, 8>>,
      <<8115, 8115, 1, 9>>, <<8126, 8126, 1, -7205>>, <<8131, 8131, 1, 9>>,
      <<8144, 8145, 1, 8>>, <<8160, 8161, 1, 8>>, <<8165, 8165, 1, 7>>,
      <<8179, 8179, 1, 9>>, <<8526, 8526, 1, -28>>, <<8560, 8575, 1, -16>>,
      <<8580, 8580, 1, -1>>, <<9424, 9449, 1, -26>>, <<11312, 11359, 1, -48>>,
      <<11361, 11361, 1, -1>>, <<11365, 11365, 1, -10795>>, <<11366, 11366, 1, -10792>>,
      <<11368, 11372, 2, -1>>, <<11379, 11379, 1, -1>>, <<11382, 11382, 1, -1>>,
      <<11393, 11491, 2, -1>>, <<11500, 11502, 2, -1>>, <<11507, 11507, 1, -1>>,
      <<11520, 11557, 1, -7264>>, <<11559, 11559, 1, -7264>>, <<11565, 11565, 1, -7264>>,
      <<42561, 42605, 2, -1>>, <<42625, 42651, 2, -1>>, <<42787, 42799, 2, -1>>,
      <<42803, 42863, 2, -1>>, <<42874, 42876, 2, -1>>, <<42879, 42887, 2, -1>>,
      <<42892, 42892, 1, -1>>, <<42897, 42899, 2, -1>>, <<42900, 42900, 1, 48>>,
      <<42903, 42921, 2, -1>>, <<42933, 42947, 2, -1>>, <<42952, 42954, 2, -1>>,
      <<42961, 42961, 1, -1>>, <<42967, 42969, 2, -1>>, <<42998, 42998, 1, -1>>,
      <<43859, 43859, 1, -928>>, <<43888, 43967, 1, -38864>>, <<65345, 65370, 1, -32>>,
      <<66600, 66639, 1, -40>>, <<66776, 66811, 1, -40>>, <<66967, 66977, 1, -39>>,
      <<66979, 66993, 1, -39>>, <<66995, 67001, 1, -39>>, <<67003, 67004, 1, -39>>,
      <<68800, 68850, 1, -64>>, <<71872, 71903, 1, -32>>, <<93792, 93823, 1, -32>>,
      <<125218, 125251, 1, -34>> }

\* A rune mapped through a table of case ranges
CaseMap(ranges, r) ==
    LET hits == {rg \in ranges : r >= rg[1] /\ r <= rg[2] /\ (r - rg[1]) % rg[3] = 0}
    IN IF hits = {} THEN r ELSE r + (CHOOSE rg \in hits : TRUE)[4]

\* unicode.ToLower
ToLowerRune(r) ==
    IF r \in 65..90 THEN r + 32
    ELSE IF r < 128 THEN r
    ELSE CaseMap(LowerRanges, r)

\* unicode.ToUpper
ToUpperRune(r) ==
    IF r \in 97..122 THEN r - 32
    ELSE IF r < 128 THEN r
    ELSE CaseMap(UpperRanges, r)

\* strings.ToLower
ToLower(s) == [i \in 1..Len(s) |-> ToLowerRune(s[i])]

\* strings.ToUpper
ToUpper(s) == [i \in 1..Len(s) |-> ToUpperRune(s[i])]

\* unicode.Is(unicode.Sc, r): the Unicode currency symbols
IsSc(r) ==
    \/ r \in {36, 1423, 1547, 2555, 2801, 3065, 3647, 6107, 43064, 65020, 65129, 65284}
    \/ r \in 162..165
    \/ r \in 2046..2047
    \/ r \in 2546..2547
    \/ r \in 8352..8384
    \/ r \in 65504..65505
    \/ r \in 65509..65510
    \/ r \in 73693..73696
    \/ r \in {123647, 126128}

\* utf8.DecodeRuneInString: the first rune of s
DecodeRune(s) == IF s = <<>> THEN RuneError ELSE Head(s)

---------------------------------------------------------------------------
(* int64 arithmetic, modulo 2^64                                           *)

Limbs == 8
LimbBase == 256

Zero64 == [i \in 1..Limbs |-> 0]

\* int64(n) for a small n >= 0 (n < 2^31)
FromNat(n) ==
    [i \in 1..Limbs |->
        IF i = 1 THEN n % LimbBase
        ELSE IF i = 2 THEN (n \div LimbBase) % LimbBase
        ELSE IF i = 3 THEN (n \div (LimbBase * LimbBase)) % LimbBase
        ELSE IF i = 4 THEN (n \div (LimbBase * LimbBase * LimbBase)) % LimbBase
        ELSE 0]

RECURSIVE AddFrom(_, _, _, _)
AddFrom(x, y, i, c) ==
    IF i > Limbs THEN <<>>
    ELSE LET t == x[i] + y[i] + c
         IN <<t % LimbBase>> \o AddFrom(x, y, i + 1, t \div LimbBase)

\* x + y on int64
Add64(x, y) == AddFrom(x, y, 1, 0)

RECURSIVE ColSum(_, _, _, _)
ColSum(x, y, k, i) == IF i > k THEN 0 ELSE x[i] * y[k + 1 - i] + ColSum(x, y, k, i + 1)

RECURSIVE MulFrom(_, _, _, _)
MulFrom(x, y, k, c) ==
    IF k > Limbs THEN <<>>
    ELSE LET t == ColSum(x, y, k, 1) + c
         IN <<t % LimbBase>> \o MulFrom(x, y, k + 1, t \div LimbBase)

\* x * y on int64
Mul64(x, y) == MulFrom(x, y, 1, 0)

\* -x on int64
Neg64(x) == Add64([i \in 1..Limbs |-> LimbBase - 1 - x[i]], FromNat(1))

\* int64(n) for a small n of either sign
FromInt(n) == IF n >= 0 THEN FromNat(n) ELSE Neg64(FromNat(-n))

\* x < 0 on int64
IsNeg64(x) == x[Limbs] >= LimbBase \div 2


\* The decimal digits of the unsigned value of limbs x, most significant first
\* (<<>> for zero): repeated division by 10
RECURSIVE DivMod10(_, _, _)
DivMod10(x, i, r) ==
    \* long division of limbs i..1 of x by 10 with incoming remainder r:
    \* <<quotient limbs i..1 (most significant first), remainder>>
    IF i = 0 THEN <<<<>>, r>>
    ELSE LET t == r * LimbBase + x[i]
             rest == DivMod10(x, i - 1, t % 10)
         IN <<<<t \div 10>> \o rest[1], rest[2]>>

RECURSIVE DecimalOf(_)
DecimalOf(x) ==
    IF x = Zero64 THEN <<>>
    ELSE LET dm == DivMod10(x, Limbs, 0)
             q == [i \in 1..Limbs |-> dm[1][Limbs + 1 - i]]
         IN DecimalOf(q) \o <<48 + dm[2]>>

\* The signed decimal notation of an int64, as [neg, digits]; zero is
\* [FALSE, <<>>]
FormatInt64(x) ==
    IF IsNeg64(x) THEN [neg |-> TRUE, digits |-> DecimalOf(Neg64(x))]
    ELSE [neg |-> FALSE, digits |-> DecimalOf(x)]

---------------------------------------------------------------------------
(* Package money: the currency table and its lookups                       *)

EUR == <<69, 85, 82>>
USD == <<85, 83, 68>>
JPY == <<74, 80, 89>>
CLF == <<67, 76, 70>>
LYD == <<76, 89, 68>>
BGN == <<66, 71, 78>>
GBP == <<71, 66, 80>>
XTS == <<88, 84, 83>>

\* money.Currency: the fields the parser reads.  XTS stands for a currency
\* registered with no symbol and no decimal separator.
CurrencyTable ==
    { [Code |-> EUR, NumericCode |-> <<57, 55, 56>>, Fraction |-> 2,
       Grapheme |-> <<8364>>, Decimal |-> <<46>>],
      [Code |-> USD, NumericCode |-> <<56, 52, 48>>, Fraction |-> 2,
       Grapheme |-> <<36>>, Decimal |-> <<46>>],
      [Code |-> JPY, NumericCode |-> <<51, 57, 50>>, Fraction |-> 0,
       Grapheme |-> <<165>>, Decimal |-> <<46>>],
      [Code |-> CLF, NumericCode |-> <<57, 57, 48>>, Fraction |-> 4,
       Grapheme |-> <<85, 70>>, Decimal |-> <<44>>],
      [Code |-> LYD, NumericCode |-> <<52, 51, 52>>, Fraction |-> 3,
       Grapheme |-> <<46, 1583, 46, 1604>>, Decimal |-> <<46>>],
      [Code |-> BGN, NumericCode |-> <<57, 55, 53>>, Fraction |-> 2,
       Grapheme |-> <<1083, 1074>>, Decimal |-> <<46>>],
      [Code |-> GBP, NumericCode |-> <<56, 50, 54>>, Fraction |-> 2,
       Grapheme |-> <<163>>, Decimal |-> <<46>>],
      [Code |-> XTS, NumericCode |-> <<57, 54, 51>>, Fraction |-> 2,
       Grapheme |-> <<>>, Decimal |-> <<>>] }

\* The value standing for a nil *money.Currency
NoCurrency ==
    [Code |-> <<>>, NumericCode |-> <<>>, Fraction |-> 0, Grapheme |-> <<>>,
     Decimal |-> <<>>]

\* money.GetCurrency: the entry of the upper-cased code, or nil
GetCurrency(table, code) ==
    IF \E c \in table : c.Code = ToUpper(code)
    THEN [found |-> TRUE, cur |-> CHOOSE c \in table : c.Code = ToUpper(code)]
    ELSE [found |-> FALSE, cur |-> NoCurrency]

\* money.GetCurrencyByNumericCode: the entry of that numeric code, or nil
GetCurrencyByNumericCode(table, code) ==
    IF \E c \in table : c.NumericCode = code
    THEN [found |-> TRUE, cur |-> CHOOSE c \in table : c.NumericCode = code]
    ELSE [found |-> FALSE, cur |-> NoCurrency]

---------------------------------------------------------------------------
(* The currency resolver                                                   *)

\* isAlpha3: 3 bytes, each an ASCII letter
isAlpha3(s) ==
    /\ ByteLen(s) = 3
    /\ \A i \in 1..Len(s) :
          ~ ((97 > s[i] \/ s[i] > 122) /\ (65 > s[i] \/ s[i] > 90))

\* isNumeric that takes the empty string for a number
isNumeric_EmptyToo(s) == \A i \in 1..Len(s) : ~ (s[i] < 48 \/ s[i] > 57)

\* isNumeric: at least one byte, each an ASCII digit
isNumeric(s) ==
    /\ ByteLen(s) # 0
    /\ \A i \in 1..Len(s) : ~ (s[i] < 48 \/ s[i] > 57)

\* lookupCurrency: [cur, err], err = Nil on success
lookupCurrency(table, q) ==
    IF isAlpha3(q)
    THEN LET c == GetCurrency(table, q)
         IN IF c.found THEN [cur |-> c.cur, err |-> Nil]
            ELSE [cur |-> NoCurrency, err |-> "ErrInvalidISO"]
    ELSE IF isNumeric(q)
    THEN LET c == GetCurrencyByNumericCode(table, q)
         IN IF c.found THEN [cur |-> c.cur, err |-> Nil]
            ELSE [cur |-> NoCurrency, err |-> "ErrInvalidNumericCode"]
    ELSE [cur |-> NoCurrency, err |-> "ErrInvalidCurrencyQuery"]

\* The token list of containsCurrencySymbol
tokens ==
  { <<46, 1583, 46, 1573>>, <<46, 1583, 46, 1576>>, <<46, 1583, 46, 1578>>,
    <<46, 1583, 46, 1580>>, <<46, 1583, 46, 1593>>, <<46, 1583, 46, 1603>>,
    <<46, 1583, 46, 1604>>, <<46, 1583, 46, 1605>>, <<97, 36>>, <<97, 114>>,
    <<98, 47, 46>>, <<98, 114>>, <<98, 115>>, <<98, 115, 46>>, <<98, 115, 46, 115>>,
    <<98, 122, 36>>, <<99, 36>>, <<99, 102>>, <<99, 102, 97>>, <<99, 103>>,
    <<99, 104, 102>>, <<100>>, <<100, 98>>, <<102, 99>>, <<102, 100, 106>>, <<102, 103>>,
    <<102, 114>>, <<102, 114, 119>>, <<102, 116>>, <<103>>, <<103, 115>>,
    <<104, 107, 36>>, <<106, 36>>, <<107>>, <<107, 109>>, <<107, 110>>, <<107, 114>>,
    <<107, 115, 104>>, <<107, 122>>, <<107, 269>>, <<108>>, <<108, 101>>,
    <<108, 101, 105>>, <<108, 115>>, <<108, 116>>, <<109, 107>>, <<109, 116>>,
    <<109, 118, 114>>, <<110, 102, 107>>, <<110, 116, 36>>, <<110, 117, 46>>,
    <<111, 122, 32, 116>>, <<112>>, <<112, 46>>, <<113>>, <<114>>, <<114, 36>>,
    <<114, 100, 36>>, <<114, 109>>, <<114, 112>>, <<115, 36>>, <<115, 47>>,
    <<115, 100, 114>>, <<115, 104>>, <<115, 107>>, <<115, 109>>, <<115, 111, 8217, 109>>,
    <<116>>, <<116, 36>>, <<116, 115, 104>>, <<116, 116, 36>>, <<117, 102>>,
    <<117, 109>>, <<117, 115, 104>>, <<118, 116>>, <<122, 36>>, <<122, 107>>,
    <<122, 322>>, <<402>>, <<1076, 1077, 1085>>, <<1076, 1080, 1085, 46>>,
    <<1083, 1074>>, <<1089, 1086, 1084>>, <<1380, 1408, 46>>, <<4314>>, <<20803>> }

\* containsCurrencySymbol: a rune of category Sc, or a token in the lower-cased s
containsCurrencySymbol(s) ==
    \/ \E i \in 1..Len(s) : IsSc(s[i])
    \/ \E t \in tokens : Contains(ToLower(s), t)

\* contains: membership of a rune in a slice
contains(slice, r) == \E i \in 1..Len(slice) : slice[i] = r

\* containsSign: the first rune is '-', '+' or the Unicode minus
containsSign(s) == contains(<<hyphenSign, plusSign, minusSign>>, DecodeRune(s))

\* The body of the loop of atoiRunes: n = n*10 + int64(r-'0'), on int64
atoiStep(acc, r) ==
    IF r < 48 \/ r > 57 THEN [n |-> Zero64, err |-> "not a digit"]
    ELSE [n |-> Add64(Mul64(acc.n, FromNat(10)), FromNat(r - 48)), err |-> Nil]

RECURSIVE atoiFrom(_, _, _)
atoiFrom(rs, i, acc) ==
    IF i > Len(rs) THEN acc
    ELSE LET nx == atoiStep(acc, rs[i])
         IN IF nx.err # Nil THEN nx ELSE atoiFrom(rs, i + 1, nx)

\* atoiRunes: [n, err]
atoiRunes(rs) == atoiFrom(rs, 1, [n |-> Zero64, err |-> Nil])

\* pow10int64, for n in 0..9 (it panics on any other n)
pow10int64(n) ==
    CASE n = 0 -> FromNat(1)
      [] n = 1 -> FromNat(10)
      [] n = 2 -> FromNat(100)
      [] n = 3 -> FromNat(1000)
      [] n = 4 -> FromNat(10000)
      [] n = 5 -> FromNat(100000)
      [] n = 6 -> FromNat(1000000)
      [] n = 7 -> FromNat(10000000)
      [] n = 8 -> FromNat(100000000)
      [] n = 9 -> FromNat(1000000000)

---------------------------------------------------------------------------
(* Parser options                                                          *)

\* ParserOptions{}: the zero value of the struct
ZeroOptions ==
    [AllowCurrencySymbol |-> FALSE, StrictGrouping |-> FALSE, AcceptSigns |-> FALSE]

\* DefaultOptions
DefaultOptions ==
    [AllowCurrencySymbol |-> FALSE, StrictGrouping |-> FALSE, AcceptSigns |-> TRUE]

\* An Option is the closure one of the With... functions returns: here the
\* name of the function and the value it was given
WithStrictGrouping(val) == [name |-> "WithStrictGrouping", val |-> val]
WithAllowCurrencySymbol(val) == [name |-> "WithAllowCurrencySymbol", val |-> val]
WithAcceptSigns(val) == [name |-> "WithAcceptSigns", val |-> val]

\* o(opt): the option applied to the options
ApplyOption(o, opt) ==
    CASE o.name = "WithStrictGrouping" -> [opt EXCEPT !.StrictGrouping = o.val]
      [] o.name = "WithAllowCurrencySymbol" -> [opt EXCEPT !.AllowCurrencySymbol = o.val]
      [] o.name = "WithAcceptSigns" -> [opt EXCEPT !.AcceptSigns = o.val]

RECURSIVE ApplyOptions(_, _)
\* for _, o := range opts { opt = o(opt) }
ApplyOptions(os, opt) ==
    IF os = <<>> THEN opt ELSE ApplyOptions(Tail(os), ApplyOption(Head(os), opt))

\* NewAmountParser: the options applied to the zero ParserOptions when any
\* is given, DefaultOptions otherwise
NewAmountParserOpt(os) ==
    IF Len(os) > 0 THEN ApplyOptions(os, ZeroOptions) ELSE DefaultOptions

---------------------------------------------------------------------------
(* AmountParser.parse, step by step                                        *)

\* A result: (money.Amount, error)
Ok(v) == [val |-> v, err |-> Nil]
Fail(e) == [val |-> Zero64, err |-> e]

\* line 136: NBSP becomes a space, then the string is trimmed
parseNormalize(s) == TrimSpace(ReplaceAllRune(s, nbsp, space))

RECURSIVE CutAll(_, _)
CutAll(s, old) == IF Index(s, old) = 0 THEN s ELSE CutAll(ReplaceFirst(s, old), old)

\* parseSymbol that cuts out every occurrence of the symbol
parseSymbol_CutsAll(opt, s, cur) ==
    IF opt.AllowCurrencySymbol /\ Len(s) > 0
    THEN IF Index(s, cur.Grapheme) = 0
         THEN [s |-> s, err |-> "ErrInvalidCurrencySymbol"]
         ELSE [s |-> TrimSpace(IF cur.Grapheme = <<>> THEN s ELSE CutAll(s, cur.Grapheme)),
               err |-> Nil]
    ELSE [s |-> s, err |-> Nil]

\* lines 138-146: the currency symbol is looked for and cut out once
parseSymbol(opt, s, cur) ==
    IF opt.AllowCurrencySymbol /\ Len(s) > 0
    THEN IF Index(s, cur.Grapheme) = 0
         THEN [s |-> s, err |-> "ErrInvalidCurrencySymbol"]
         ELSE [s |-> TrimSpace(ReplaceFirst(s, cur.Grapheme)), err |-> Nil]
    ELSE [s |-> s, err |-> Nil]

\* parseSign that knows the ASCII hyphen only, not the Unicode minus
parseSign_HyphenOnly(opt, s) ==
    IF opt.AcceptSigns /\ Len(s) > 0
    THEN LET r == DecodeRune(s)
         IN IF r = hyphenSign
            THEN [s |-> TrimSpace(Tail(s)), sign |-> -1]
            ELSE IF r = plusSign
            THEN [s |-> TrimSpace(Tail(s)), sign |-> 1]
            ELSE [s |-> s, sign |-> 1]
    ELSE [s |-> s, sign |-> 1]

\* lines 148-158: a leading sign is taken off
parseSign(opt, s) ==
    IF opt.AcceptSigns /\ Len(s) > 0
    THEN LET r == DecodeRune(s)
         IN IF r = minusSign \/ r = hyphenSign
            THEN [s |-> TrimSpace(Tail(s)), sign |-> -1]
            ELSE IF r = plusSign
            THEN [s |-> TrimSpace(Tail(s)), sign |-> 1]
            ELSE [s |-> s, sign |-> 1]
    ELSE [s |-> s, sign |-> 1]

\* lines 164-167: the decimal separator of the currency, '.' by default
decOf(cur) == IF Len(cur.Decimal) > 0 THEN cur.Decimal[1] ELSE 46

\* lines 171-174: the locals of the scan
ScanInit ==
    [intDigits |-> <<>>, fracDigitsRunes |-> <<>>, hasDec |-> FALSE,
     lastSeenRune |-> 48, err |-> Nil]

\* ScanRune that never records the grouping character it saw
ScanRune_NoTrack(opt, dec, fracDigits, f, r) ==
    IF r >= 48 /\ r <= 57
    THEN IF f.hasDec
         THEN [f EXCEPT !.fracDigitsRunes = Append(@, r)]
         ELSE [f EXCEPT !.intDigits = Append(@, r)]
    ELSE IF r = dec /\ ~f.hasDec /\ fracDigits > 0
    THEN [f EXCEPT !.hasDec = TRUE]
    ELSE IF r = 32 \/ r = 44 \/ r = 46
    THEN f
    ELSE [f EXCEPT !.err = "ErrBadChar"]

\* ScanRune that refuses a decimal separator met again
ScanRune_OneDecimalOnly(opt, dec, fracDigits, f, r) ==
    IF r >= 48 /\ r <= 57
    THEN IF f.hasDec
         THEN [f EXCEPT !.fracDigitsRunes = Append(@, r)]
         ELSE [f EXCEPT !.intDigits = Append(@, r)]
    ELSE IF r = dec /\ ~f.hasDec /\ fracDigits > 0
    THEN [f EXCEPT !.hasDec = TRUE]
    ELSE IF r = dec /\ f.hasDec
    THEN [f EXCEPT !.err = "ErrBadChar"]
    ELSE IF r = 32 \/ r = 44 \/ r = 46
    THEN IF opt.StrictGrouping
         THEN LET tmp == f.lastSeenRune
              IN IF ~f.hasDec /\ (tmp # 48 /\ tmp # r)
                 THEN [f EXCEPT !.lastSeenRune = r, !.err = "ErrMixedGrouping"]
                 ELSE [f EXCEPT !.lastSeenRune = r]
         ELSE f
    ELSE [f EXCEPT !.err = "ErrBadChar"]

\* lines 176-196: the body of the scan loop for rune r
ScanRune(opt, dec, fracDigits, f, r) ==
    IF r >= 48 /\ r <= 57
    THEN IF f.hasDec
         THEN [f EXCEPT !.fracDigitsRunes = Append(@, r)]
         ELSE [f EXCEPT !.intDigits = Append(@, r)]
    ELSE IF r = dec /\ ~f.hasDec /\ fracDigits > 0
    THEN [f EXCEPT !.hasDec = TRUE]
    ELSE IF r = 32 \/ r = 44 \/ r = 46
    THEN IF opt.StrictGrouping
         THEN LET tmp == f.lastSeenRune
              IN IF ~f.hasDec /\ (tmp # 48 /\ tmp # r)
                 THEN [f EXCEPT !.lastSeenRune = r, !.err = "ErrMixedGrouping"]
                 ELSE [f EXCEPT !.lastSeenRune = r]
         ELSE f
    ELSE [f EXCEPT !.err = "ErrBadChar"]

RECURSIVE ScanFrom(_, _, _, _, _, _)
\* lines 175-197: the loop over the runes of s, left at the first error
ScanFrom(opt, dec, fracDigits, s, i, f) ==
    IF i > Len(s) \/ f.err # Nil THEN f
    ELSE ScanFrom(opt, dec, fracDigits, s, i + 1, ScanRune(opt, dec, fracDigits, f, s[i]))

\* PadFrac that puts the zeros in front of the digits
PadFrac_Left(fr, fracDigits) ==
    IF Len(fr) < fracDigits
    THEN [i \in 1..(fracDigits - Len(fr)) |-> 48] \o fr
    ELSE fr

\* lines 203-210: the fractional digits padded with '0' to fracDigits
PadFrac(fr, fracDigits) ==
    IF Len(fr) < fracDigits
    THEN fr \o [i \in 1..(fracDigits - Len(fr)) |-> 48]
    ELSE fr

\* parseAssemble with surplus fractional digits cut off, not refused
parseAssemble_Truncating(f, fracDigits, sign) ==
    IF Len(f.intDigits) = 0 /\ Len(f.fracDigitsRunes) = 0 THEN Fail("ErrNoDigits")
    ELSE LET intVal == atoiRunes(f.intDigits)
             fracVal == atoiRunes(SubSeq(PadFrac(f.fracDigitsRunes, fracDigits),
                                         1, fracDigits))
         IN Ok(Mul64(FromInt(sign),
                     Add64(Mul64(intVal.n, pow10int64(fracDigits)), fracVal.n)))

\* lines 199-224: the digits assembled into the amount
parseAssemble(f, fracDigits, sign) ==
    IF Len(f.intDigits) = 0 /\ Len(f.fracDigitsRunes) = 0 THEN Fail("ErrNoDigits")
    ELSE IF Len(f.fracDigitsRunes) > fracDigits THEN Fail("ErrTooManyDecimals")
    ELSE LET intVal == atoiRunes(f.intDigits)
             fracVal == atoiRunes(PadFrac(f.fracDigitsRunes, fracDigits))
         IN IF intVal.err # Nil THEN Fail(intVal.err)
            ELSE IF fracVal.err # Nil THEN Fail(fracVal.err)
            ELSE IF fracDigits \notin 0..9 THEN Fail("panic: fraction digits out of range")
            ELSE LET base == pow10int64(fracDigits)
                     minor == Add64(Mul64(intVal.n, base), fracVal.n)
                 IN Ok(Mul64(FromInt(sign), minor))

\* The locals of AmountParser.parse after its scan loop: the outcome of the
\* symbol step, of the sign step, and the scanned digits
parseLocals(opt, s0, cur) ==
    LET s1 == parseNormalize(s0)
        sym == parseSymbol(opt, s1, cur)
        sg == parseSign(opt, sym.s)
    IN [sym |-> sym, sg |-> sg,
        f |-> ScanFrom(opt, decOf(cur), cur.Fraction, sg.s, 1, ScanInit)]

\* AmountParser.parse
parse(opt, s0, cur) ==
    LET l == parseLocals(opt, s0, cur)
    IN IF l.sym.err # Nil THEN Fail(l.sym.err)
       ELSE IF l.sg.s = <<>> THEN Fail("ErrNoDigits")
       ELSE IF l.f.err # Nil THEN Fail(l.f.err)
       ELSE parseAssemble(l.f, cur.Fraction, l.sg.sign)

\* ParseGates with the symbol gate first
ParseGates_SymbolFirst(opt, s) ==
    IF ~opt.AllowCurrencySymbol /\ containsCurrencySymbol(s)
    THEN "ErrCurrencySymbolNotAllowed"
    ELSE IF ~opt.AcceptSigns /\ containsSign(s) THEN "ErrSignsNotAllowed"
    ELSE Nil

\* lines 125-130 of AmountParser.Parse: the sign gate, then the symbol gate
ParseGates(opt, s) ==
    IF ~opt.AcceptSigns /\ containsSign(s) THEN "ErrSignsNotAllowed"
    ELSE IF ~opt.AllowCurrencySymbol /\ containsCurrencySymbol(s)
    THEN "ErrCurrencySymbolNotAllowed"
    ELSE Nil

\* AmountParser.Parse
Parse(opt, table, input, currency) ==
    LET s == TrimSpace(input)
        c == lookupCurrency(table, TrimSpace(currency))
    IN IF s = <<>> THEN Fail("ErrEmptyInput")
       ELSE IF currency = <<>> THEN Fail("ErrInvalidISO")
       ELSE IF c.err # Nil THEN Fail(c.err)
       ELSE IF ParseGates(opt, s) # Nil THEN Fail(ParseGates(opt, s))
       ELSE parse(opt, s, c.cur)

---------------------------------------------------------------------------
(* The legacy entry point ParseToMinor                                     *)

\* The runes of category Nd, as <<first, last>>
DigitRanges ==
    { <<48, 57>>, <<1632, 1641>>, <<1776, 1785>>, <<1984, 1993>>,
      <<2406, 2415>>, <<2534, 2543>>, <<2662, 2671>>, <<2790, 2799>>,
      <<2918, 2927>>, <<3046, 3055>>, <<3174, 3183>>, <<3302, 3311>>,
      <<3430, 3439>>, <<3558, 3567>>, <<3664, 3673>>, <<3792, 3801>>,
      <<3872, 3881>>, <<4160, 4169>>, <<4240, 4249>>, <<6112, 6121>>,
      <<6160, 6169>>, <<6470, 6479>>, <<6608, 6617>>, <<6784, 6793>>,
      <<6800, 6809>>, <<6992, 7001>>, <<7088, 7097>>, <<7232, 7241>>,
      <<7248, 7257>>, <<42528, 42537>>, <<43216, 43225>>, <<43264, 43273>>,
      <<43472, 43481>>, <<43504, 43513>>, <<43600, 43609>>, <<44016, 44025>>,
      <<65296, 65305>>, <<66720, 66729>>, <<68912, 68921>>, <<69734, 69743>>,
      <<69872, 69881>>, <<69942, 69951>>, <<70096, 70105>>, <<70384, 70393>>,
      <<70736, 70745>>, <<70864, 70873>>, <<71248, 71257>>, <<71360, 71369>>,
      <<71472, 71481>>, <<71904, 71913>>, <<72016, 72025>>, <<72784, 72793>>,
      <<73040, 73049>>, <<73120, 73129>>, <<73552, 73561>>, <<92768, 92777>>,
      <<92864, 92873>>, <<93008, 93017>>, <<120782, 120831>>, <<123200, 123209>>,
      <<123632, 123641>>, <<124144, 124153>>, <<125264, 125273>>, <<130032, 130041>> }

\* unicode.IsDigit
IsDigit(r) == r \in 48..57 \/ \E rg \in DigitRanges : r >= rg[1] /\ r <= rg[2]

\* strings.ReplaceAll(s, old, "") for a one-rune old
RemoveRune(s, old) == SelectSeq(s, LAMBDA r : r # old)

\* strings.LastIndexByte for an ASCII byte: the last place of rune b in s,
\* 0 when there is none
LastIndexByte(s, b) ==
    IF \E k \in 1..Len(s) : s[k] = b
    THEN CHOOSE k \in 1..Len(s) : s[k] = b /\ \A j \in (k + 1)..Len(s) : s[j] # b
    ELSE 0

RECURSIVE Magnitude(_)
\* The digits of a number without its leading zeros
Magnitude(ds) == IF ds # <<>> /\ Head(ds) = 48 THEN Magnitude(Tail(ds)) ELSE ds

RECURSIVE LexLE(_, _)
LexLE(a, b) ==
    IF a = <<>> THEN TRUE
    ELSE IF Head(a) # Head(b) THEN Head(a) < Head(b)
    ELSE LexLE(Tail(a), Tail(b))

\* a <= b for two numbers given by their digits, leading zeros dropped
DigitsLE(a, b) == Len(a) < Len(b) \/ (Len(a) = Len(b) /\ LexLE(a, b))

\* 2^63 - 1 and 2^63, the bounds of int, and 2^64 - 1
MaxIntDigits == <<57, 50, 50, 51, 51, 55, 50, 48, 51, 54, 56, 53, 52, 55, 55, 53, 56, 48, 55>>
MinIntDigits == <<57, 50, 50, 51, 51, 55, 50, 48, 51, 54, 56, 53, 52, 55, 55, 53, 56, 48, 56>>
MaxUintDigits ==
    <<49, 56, 52, 52, 54, 55, 52, 52, 48, 55, 51, 55, 48, 57, 53, 53, 49, 54, 49, 53>>

\* What stops the digit loop of strconv.ParseUint at the k-th byte: a byte
\* that is no digit, or a value grown beyond 2^64 - 1
AtoiStops(body, k) ==
    \/ body[k] \notin 48..57
    \/ ~DigitsLE(Magnitude(SubSeq(body, 1, k)), MaxUintDigits)

\* strconv.Atoi: an optional sign and ASCII digits, within int.  The bytes
\* are read left to right and the first one that stops the loop decides
\* between ErrSyntax and ErrRange.
Atoi(s) ==
    LET signed == s # <<>> /\ s[1] \in {43, 45}
        body == IF signed THEN Tail(s) ELSE s
        neg == signed /\ s[1] = 45
        mag == Magnitude(body)
        stops == {k \in 1..Len(body) : AtoiStops(body, k)}
        first == CHOOSE k \in stops : \A j \in stops : k <= j
    IN IF body = <<>>
       THEN [err |-> "strconv.ErrSyntax", neg |-> FALSE, mag |-> <<>>]
       ELSE IF stops # {}
       THEN [err |-> IF body[first] \notin 48..57 THEN "strconv.ErrSyntax"
                     ELSE "strconv.ErrRange",
             neg |-> FALSE, mag |-> <<>>]
       ELSE IF ~DigitsLE(mag, IF neg THEN MinIntDigits ELSE MaxIntDigits)
       THEN [err |-> "strconv.ErrRange", neg |-> FALSE, mag |-> <<>>]
       ELSE [err |-> Nil, neg |-> neg /\ mag # <<>>, mag |-> mag]

\* Capacities of a []rune, in runes: 2^46 (four bytes each, the most
\* makeslice lets through), 2^45 (the whole user address space) and 2^30
\* (4 GiB, below which the allocation is taken to succeed)
MaxCapDigits == <<55, 48, 51, 54, 56, 55, 52, 52, 49, 55, 55, 54, 54, 52>>
AddressSpaceCapDigits == <<51, 53, 49, 56, 52, 51, 55, 50, 48, 56, 56, 56, 51, 50>>
LargeCapDigits == <<49, 48, 55, 51, 55, 52, 49, 56, 50, 52>>

\* make([]rune, 0, length): Nil when the slice is made.  A negative
\* capacity or one beyond 2^46 panics; one that fills the address space
\* ends the process; a large one below that is made or ends the process,
\* as the memory of the machine (mem) allows.
makeRunes(length, mem) ==
    IF length.neg \/ ~DigitsLE(length.mag, MaxCapDigits)
    THEN "panic: makeslice: cap out of range"
    ELSE IF DigitsLE(AddressSpaceCapDigits, length.mag)
    THEN "fatal error: runtime: out of memory"
    ELSE IF DigitsLE(LargeCapDigits, length.mag) /\ ~mem
    THEN "fatal error: runtime: out of memory"
    ELSE Nil

\* normalizeSequenceInternal: the slice made, then the digits of the
\* sequence, spaces dropped, any other rune an error
normalizeSequenceInternal(length, sequence, mem) ==
    IF makeRunes(length, mem) # Nil THEN [rs |-> <<>>, err |-> makeRunes(length, mem)]
    ELSE IF \E i \in 1..Len(sequence) : ~IsDigit(sequence[i]) /\ sequence[i] \notin {32, 160}
    THEN [rs |-> <<>>, err |-> "invalid character in sequence"]
    ELSE [rs |-> SelectSeq(sequence, IsDigit), err |-> Nil]

\* normalizeSequence.  For an IntSequence the capacity of the slice is the
\* VALUE of the digits, for a DecSequence the number of runes.
normalizeSequence(seq, t, mem) ==
    IF t = "IntSequence"
    THEN LET cleaned == RemoveRune(RemoveRune(RemoveRune(seq, 44), 46), 32)
             length == Atoi(cleaned)
         IN IF length.err # Nil THEN [rs |-> <<>>, err |-> length.err]
            ELSE normalizeSequenceInternal(length, cleaned, mem)
    ELSE normalizeSequenceInternal(
             [err |-> Nil, neg |-> FALSE, mag |-> DecimalOf(FromNat(Len(seq)))], seq, mem)

RECURSIVE legacyBase(_)
\* base := 1; for range fraction { base *= 10 }
legacyBase(fraction) ==
    IF fraction <= 0 THEN FromNat(1) ELSE Mul64(legacyBase(fraction - 1), FromNat(10))

\* lines 274-281 of parseToMinor: the sign byte
legacySign(s) ==
    IF s[1] = 43 THEN [s |-> TrimSpace(Tail(s)), sign |-> 1]
    ELSE IF s[1] = 45 THEN [s |-> TrimSpace(Tail(s)), sign |-> -1]
    ELSE [s |-> s, sign |-> 1]

\* lines 288-337 of parseToMinor: a currency with fraction digits
legacyDecimable(s, c, sign, mem) ==
    IF c.Decimal = <<>> THEN Fail("panic: index out of range")
    ELSE
    LET decIdx == LastIndexByte(s, c.Decimal[1])
        intPart == IF decIdx # 0 THEN SubSeq(s, 1, decIdx - 1) ELSE s
        fracCut == IF decIdx # 0 THEN SubSeq(s, decIdx + 1, Len(s)) ELSE <<>>
        fracPart == IF Len(fracCut) < c.Fraction
                    THEN fracCut \o [i \in 1..(c.Fraction - Len(fracCut)) |-> 48]
                    ELSE fracCut
        intSequence == normalizeSequence(intPart, "IntSequence", mem)
        fracSequence == normalizeSequence(fracPart, "DecSequence", mem)
        intVal == atoiRunes(intSequence.rs)
        fracVal == atoiRunes(fracSequence.rs)
    IN IF intSequence.err # Nil THEN Fail(intSequence.err)
       ELSE IF fracSequence.err # Nil THEN Fail(fracSequence.err)
       ELSE IF intVal.err # Nil THEN Fail(intVal.err)
       ELSE IF fracVal.err # Nil THEN Fail(fracVal.err)
       ELSE Ok(Mul64(FromInt(sign),
                     Add64(Mul64(intVal.n, legacyBase(c.Fraction)), fracVal.n)))

\* lines 339-362 of parseToMinor: a currency without fraction digits
legacyWhole(s, c, sign, mem) ==
    LET cl == normalizeSequence(s, "IntSequence", mem)
        intVal == atoiRunes(cl.rs)
    IN IF cl.err # Nil THEN Fail(cl.err)
       ELSE IF intVal.err # Nil THEN Fail(intVal.err)
       ELSE Ok(Mul64(FromInt(sign), Mul64(intVal.n, legacyBase(c.Fraction))))

\* parseToMinor
parseToMinor(s0, c, mem) ==
    LET sg == legacySign(s0)
        s == ReplaceAllRune(sg.s, nbsp, space)
    IN IF sg.s = <<>> THEN Fail("errNoDigits")
       ELSE IF c.Fraction > 0 THEN legacyDecimable(s, c, sg.sign, mem)
       ELSE legacyWhole(s, c, sg.sign, mem)

\* ParseToMinor; mem tells whether the machine has the memory for a large
\* slice
ParseToMinor(table, input, isoCode, mem) ==
    LET s == TrimSpace(input)
        c == GetCurrency(table, isoCode)
    IN IF s = <<>> THEN Fail("errEmptyInput")
       ELSE IF isoCode = <<>> THEN Fail("errISOCodeNotSpecified")
       ELSE IF ~c.found THEN Fail("errInvalidISOCode")
       ELSE parseToMinor(s, c.cur, mem)

---------------------------------------------------------------------------
(* The state machine                                                       *)

Goroutines == {1, 2}

\* The result of a call that has not returned
Pending == [val |-> Zero64, err |-> "pending"]

\* A Parse call of a goroutine: its arguments, its position, the locals of
\* Parse and parse, and what it returned
Call(pc, in, q) ==
    [pc |-> pc, input |-> in, currency |-> q, s |-> <<>>, cur |-> NoCurrency,
     sign |-> 1, f |-> ScanInit, i |-> 1, res |-> Pending]

\* A goroutine that makes no call
Idle == Call("idle", <<>>, <<>>)

\* The strings of at most n runes over an alphabet
Strings(alphabet, n) == UNION {[1..k -> alphabet] : k \in 0..n}

\* The option lists that set all three switches, and the empty list: every
\* ParserOptions value a parser can hold
AllSwitches ==
    {<<>>} \cup
    { <<WithAllowCurrencySymbol(a), WithStrictGrouping(g), WithAcceptSigns(x)>> :
        a \in BOOLEAN, g \in BOOLEAN, x \in BOOLEAN }

\* The inputs of the package's tests (and a few more of their kind), each
\* with its currency query
SampleCases ==
    {
      <<<<53, 8490>>, <<69, 85, 82>>>>,
      <<<<49, 32, 44, 50, 46, 51, 52>>, <<85, 83, 68>>>>,
      <<<<49, 44, 50, 46, 51, 32, 52>>, <<85, 83, 68>>>>,
      <<<<49, 46, 50, 44, 51>>, <<74, 80, 89>>>>,
      <<<<49, 48, 48>>, <<74, 80, 89>>>>,
      <<<<49, 48, 48, 46, 48>>, <<66, 71, 78>>>>,
      <<<<49, 48, 48, 44, 48, 48, 48, 46, 48, 48>>, <<69, 85, 82>>>>,
      <<<<49, 48, 48, 32, 48, 48, 48, 46, 48, 48>>, <<69, 85, 82>>>>,
      <<<<49, 48, 48, 160, 48, 48, 48, 46, 48, 48>>, <<69, 85, 82>>>>,
      <<<<50, 44, 50, 56>>, <<67, 76, 70>>>>,
      <<<<53, 51, 57, 46, 55, 50>>, <<76, 89, 68>>>>,
      <<<<43, 53, 51, 57>>, <<76, 89, 68>>>>,
      <<<<36, 53, 51, 57>>, <<85, 83, 68>>>>,
      <<<<49, 48, 32, 48, 48, 48, 44, 48, 48, 48, 46, 48, 48>>, <<85, 83, 68>>>>,
      <<<<>>, <<69, 85, 82>>>>,
      <<<<49>>, <<>>>>,
      <<<<49>>, <<90, 90, 90>>>>,
      <<<<45, 53, 51, 57>>, <<76, 89, 68>>>>,
      <<<<8364, 53, 51, 57>>, <<85, 83, 68>>>>,
      <<<<49, 46, 50, 51, 52>>, <<69, 85, 82>>>>,
      <<<<49, 50, 97, 51>>, <<69, 85, 82>>>>,
      <<<<43>>, <<69, 85, 82>>>>,
      <<<<36>>, <<85, 83, 68>>>>,
      <<<<49, 44, 50, 51, 52, 44, 53, 54, 55, 46, 56, 57, 32, 36>>, <<85, 83, 68>>>>,
      <<<<163, 49, 44, 50, 51, 52, 44, 53, 54, 55, 46, 56, 57>>, <<71, 66, 80>>>>,
      <<<<32, 9, 160, 49, 48, 48, 160, 46, 48, 48, 32>>, <<69, 85, 82>>>>,
      <<<<49, 48, 48, 164>>, <<69, 85, 82>>>>,
      <<<<45, 49, 44, 52, 53, 53, 46, 48, 48>>, <<69, 85, 82>>>>,
      <<<<8722, 53>>, <<69, 85, 82>>>>,
      <<<<85, 70, 32, 50, 44, 50, 56>>, <<67, 76, 70>>>>,
      <<<<1083, 1074, 49, 44, 50, 51, 52, 46, 53, 53>>, <<57, 55, 53>>>>,
      <<<<45, 36, 53>>, <<85, 83, 68>>>>,
      <<<<36, 45, 53>>, <<85, 83, 68>>>>,
      <<<<53, 36, 53, 36>>, <<85, 83, 68>>>>,
      <<<<49, 32, 44, 53>>, <<88, 84, 83>>>>,
      <<<<107, 114, 32, 53>>, <<88, 84, 83>>>>
    }

\* The start of a run with one call: options, an input and a currency query
InitWith(optLists, cases) ==
    /\ opts \in optLists
    /\ p = [constructed |-> FALSE, opt |-> ZeroOptions]
    /\ currencies = CurrencyTable
    /\ \E c \in cases : calls = [g \in Goroutines |->
                                    IF g = 1 THEN Call("ready", c[1], c[2]) ELSE Idle]

\* NewAmountParser(opts...)
NewAmountParser ==
    /\ ~p.constructed
    /\ p' = [constructed |-> TRUE, opt |-> NewAmountParserOpt(opts)]
    /\ UNCHANGED <<opts, currencies, calls>>

\* p.Parse(input, currency), the whole call
ParseCall(g) ==
    /\ p.constructed
    /\ calls[g].pc = "ready"
    /\ calls' = [calls EXCEPT ![g].pc = "done",
                              ![g].res = Parse(p.opt, currencies, calls[g].input,
                                               calls[g].currency)]
    /\ UNCHANGED <<opts, p, currencies>>

Next == NewAmountParser \/ \E g \in Goroutines : ParseCall(g)

(* Inputs over a mixed alphabet, under every option value *)
MaxLen == 3
Alphabet == {53, 46, 44, 32, 45, 36}
Queries == {USD, JPY, CLF}

Init ==
    InitWith(AllSwitches, (Strings(Alphabet, MaxLen) \X Queries) \cup SampleCases)

Spec == Init /\ [][Next]_vars

(* Option lists of every shape, a few signed and unsigned inputs *)
MaxOpts == 2
AllOptions ==
    { WithAllowCurrencySymbol(v) : v \in BOOLEAN } \cup
    { WithStrictGrouping(v) : v \in BOOLEAN } \cup
    { WithAcceptSigns(v) : v \in BOOLEAN }

InitOpts ==
    InitWith(Strings(AllOptions, MaxOpts),
             {<<45, 53>>, <<43, 53>>, <<8722, 53>>, <<53>>} \X {EUR, JPY})

SpecOpts == InitOpts /\ [][Next]_vars

(* Inputs of digits and separators, with and without the symbol switch *)
MaxDecLen == 5
DecAlphabet == {48, 53, 46, 44}
DecQueries == {USD, JPY, CLF, LYD, XTS}

InitDec ==
    InitWith({<<>>, <<WithAllowCurrencySymbol(TRUE), WithAcceptSigns(TRUE)>>},
             Strings(DecAlphabet, MaxDecLen) \X DecQueries)

SpecDec == InitDec /\ [][Next]_vars

(* Digit strings at the edge of int64, and past it *)
MaxTail == 2
BigBases ==
    { <<57, 50, 50, 51, 51, 55, 50, 48, 51, 54, 56, 53, 52, 55, 55, 53, 56, 48, 55>>,
      <<57, 50, 50, 51, 51, 55, 50, 48, 51, 54, 56, 53, 52, 55, 55, 53, 56, 48, 56>>,
      <<49, 56, 52, 52, 54, 55, 52, 52, 48, 55, 51, 55, 48, 57, 53, 53, 49, 54, 49, 54>>,
      <<57, 57, 57, 57, 57, 57, 57, 57, 57, 57, 57, 57, 57, 57, 57, 57, 57, 57, 57, 57>> }
BigInputs ==
    { sg \o b \o tl : sg \in {<<>>, <<45>>}, b \in BigBases,
                      tl \in Strings({48, 55, 46}, MaxTail) }

InitBig == InitWith({<<>>}, BigInputs \X {JPY, USD, CLF})

SpecBig == InitBig /\ [][Next]_vars

(* Currency queries of every shape, one input *)
MaxQueryLen == 3
QueryAlphabet == {85, 83, 68, 100, 56, 52, 48, 32, 8364}
QuerySamples ==
    { <<32, 85, 83, 68, 32>>, <<9, 56, 52, 48, 10>>, <<117, 115, 100>>, <<90, 90, 90>>,
      <<57, 57, 57>>, <<48, 56, 52, 48>>, <<85, 83, 68, 68>>, <<160>>, <<85, 83, 233>> }

InitQuery ==
    InitWith({<<>>}, {<<53>>} \X (Strings(QueryAlphabet, MaxQueryLen) \cup QuerySamples))

SpecQuery == InitQuery /\ [][Next]_vars

(* Two goroutines calling Parse on one parser, a statement block at a time *)
ConcCases ==
    { <<<<45, 53, 44, 53>>, USD>>, <<<<36, 53, 46, 53>>, USD>>, <<<<53, 32, 44, 53>>, JPY>>,
      <<<<53, 97>>, JPY>>, <<<<32>>, USD>>, <<<<53>>, <<90, 90, 90>>>> }

InitConc ==
    /\ opts \in AllSwitches
    /\ p = [constructed |-> FALSE, opt |-> ZeroOptions]
    /\ currencies = CurrencyTable
    /\ \E c \in [Goroutines -> ConcCases] :
          calls = [g \in Goroutines |-> Call("start", c[g][1], c[g][2])]

\* Parse, lines 110-133: the input and the query are trimmed and checked, the
\* currency is looked up, the gates are passed
ParseEnter(g) ==
    /\ p.constructed
    /\ calls[g].pc = "start"
    /\ LET s == TrimSpace(calls[g].input)
           c == lookupCurrency(currencies, TrimSpace(calls[g].currency))
           err == IF s = <<>> THEN "ErrEmptyInput"
                  ELSE IF calls[g].currency = <<>> THEN "ErrInvalidISO"
                  ELSE IF c.err # Nil THEN c.err
                  ELSE ParseGates(p.opt, s)
       IN calls' = IF err # Nil
                   THEN [calls EXCEPT ![g].pc = "done", ![g].res = Fail(err)]
                   ELSE [calls EXCEPT ![g].pc = "parse", ![g].s = s, ![g].cur = c.cur]
    /\ UNCHANGED <<opts, p, currencies>>

\* parse, lines 136-174: the string is normalized, the symbol and the sign
\* are taken off, the locals of the scan are set up
ParsePrepare(g) ==
    /\ calls[g].pc = "parse"
    /\ LET sym == parseSymbol(p.opt, parseNormalize(calls[g].s), calls[g].cur)
           sg == parseSign(p.opt, sym.s)
       IN calls' = IF sym.err # Nil
                   THEN [calls EXCEPT ![g].pc = "done", ![g].res = Fail(sym.err)]
                   ELSE IF sg.s = <<>>
                   THEN [calls EXCEPT ![g].pc = "done", ![g].res = Fail("ErrNoDigits")]
                   ELSE [calls EXCEPT ![g].pc = "scan", ![g].s = sg.s,
                                      ![g].sign = sg.sign, ![g].f = ScanInit, ![g].i = 1]
    /\ UNCHANGED <<opts, p, currencies>>

\* ParseScanRune with the scan's locals kept in one place for all calls
ParseScanRune_SharedLocals(g) ==
    /\ calls[g].pc = "scan"
    /\ calls[g].i <= Len(calls[g].s)
    /\ LET f == ScanRune(p.opt, decOf(calls[g].cur), calls[g].cur.Fraction,
                         calls[g].f, calls[g].s[calls[g].i])
       IN calls' = [h \in Goroutines |->
                      IF h = g
                      THEN IF f.err # Nil
                           THEN [calls[g] EXCEPT !.pc = "done", !.res = Fail(f.err)]
                           ELSE [calls[g] EXCEPT !.f = f, !.i = @ + 1]
                      ELSE [calls[h] EXCEPT !.f = f]]
    /\ UNCHANGED <<opts, p, currencies>>

\* parse, lines 175-197: one turn of the scan loop
ParseScanRune(g) ==
    /\ calls[g].pc = "scan"
    /\ calls[g].i <= Len(calls[g].s)
    /\ LET f == ScanRune(p.opt, decOf(calls[g].cur), calls[g].cur.Fraction,
                         calls[g].f, calls[g].s[calls[g].i])
       IN calls' = IF f.err # Nil
                   THEN [calls EXCEPT ![g].pc = "done", ![g].res = Fail(f.err)]
                   ELSE [calls EXCEPT ![g].f = f, ![g].i = @ + 1]
    /\ UNCHANGED <<opts, p, currencies>>

\* parse, lines 199-224: after the loop, the amount is assembled and returned
ParseAssemble(g) ==
    /\ calls[g].pc = "scan"
    /\ calls[g].i > Len(calls[g].s)
    /\ calls' = [calls EXCEPT ![g].pc = "done",
                              ![g].res = parseAssemble(calls[g].f, calls[g].cur.Fraction,
                                                       calls[g].sign)]
    /\ UNCHANGED <<opts, p, currencies>>

NextConc ==
    \/ NewAmountParser
    \/ \E g \in Goroutines :
          ParseEnter(g) \/ ParsePrepare(g) \/ ParseScanRune(g) \/ ParseAssemble(g)

SpecConc == InitConc /\ [][NextConc]_vars

---------------------------------------------------------------------------
(* What the claims speak of                                                *)

\* The call of goroutine 1 has returned
Done == calls[1].pc = "done"

\* Its arguments, its result, and the currency its query resolves to
In == calls[1].input
Res == calls[1].res
Resolved == lookupCurrency(currencies, TrimSpace(calls[1].currency))
Cur == Resolved.cur

IsDigits(s) == \A i \in 1..Len(s) : s[i] \in 48..57

RECURSIVE StripZeros(_)
\* A digit string without its leading zeros (<<>> for zero)
StripZeros(s) == IF s # <<>> /\ Head(s) = 48 THEN StripZeros(Tail(s)) ELSE s

Zeros(n) == [i \in 1..n |-> 48]

\* The input is digits, then possibly one decimal separator d and digits
HasSep(s, d) == \E k \in 1..Len(s) : s[k] = d
SepAt(s, d) == CHOOSE k \in 1..Len(s) : s[k] = d /\ \A j \in 1..(k - 1) : s[j] # d
IntPart(s, d) == IF HasSep(s, d) THEN SubSeq(s, 1, SepAt(s, d) - 1) ELSE s
FracPart(s, d) == IF HasSep(s, d) THEN SubSeq(s, SepAt(s, d) + 1, Len(s)) ELSE <<>>
PlainAmount(s, d) == IsDigits(IntPart(s, d)) /\ IsDigits(FracPart(s, d))

\* The currency symbol step lets the input through untouched
NoSymbolStep == ~p.opt.AllowCurrencySymbol \/ Cur.Grapheme = <<>>

\* The option list names the switch
Supplied(name) == \E i \in 1..Len(opts) : opts[i].name = name

---------------------------------------------------------------------------
(* C1 *)

\* C1: a parser constructed with any list of options holds the documented
\* default of every switch the list does not name: AllowCurrencySymbol and
\* StrictGrouping false, AcceptSigns true.
C1_UnsuppliedSwitchesKeepDefaults ==
    p.constructed =>
        /\ ~Supplied("WithAllowCurrencySymbol") => p.opt.AllowCurrencySymbol = FALSE
        /\ ~Supplied("WithStrictGrouping") => p.opt.StrictGrouping = FALSE
        /\ ~Supplied("WithAcceptSigns") => p.opt.AcceptSigns = TRUE

---------------------------------------------------------------------------
(* C2 *)

\* C2, as stated: for a currency of any fraction digits n (0 included), an
\* input of digits, one decimal separator and more than n digits fails with
\* ErrTooManyDecimals.
C2_TooManyDecimalsForEveryFraction ==
    (/\ Done
     /\ Resolved.err = Nil
     /\ ~p.opt.AllowCurrencySymbol
     /\ HasSep(In, decOf(Cur))
     /\ PlainAmount(In, decOf(Cur))
     /\ Len(FracPart(In, decOf(Cur))) > Cur.Fraction)
    => Res.err = "ErrTooManyDecimals"

\* C2, amended: the same for n >= 1 (when the symbol step lets the input
\* through); for n = 0 the separator ('.' or ',') is skipped as a grouping
\* character and the digits on both sides of it make the amount.
C2_TooManyDecimalsForPositiveFraction ==
    (/\ Done
     /\ Resolved.err = Nil
     /\ NoSymbolStep
     /\ HasSep(In, decOf(Cur))
     /\ PlainAmount(In, decOf(Cur))
     /\ Len(FracPart(In, decOf(Cur))) > Cur.Fraction)
    => IF Cur.Fraction >= 1
       THEN Res.err = "ErrTooManyDecimals"
       ELSE /\ Res.err = Nil
            /\ FormatInt64(Res.val) =
                 [neg |-> FALSE,
                  digits |-> StripZeros(IntPart(In, decOf(Cur)) \o FracPart(In, decOf(Cur)))]

\* An input with one digit more than a 2-digit currency takes has been refused,
\* and one with a digit after the separator of a 0-digit currency accepted
C2_Witness ==
    /\ Done
    /\ Resolved.err = Nil
    /\ NoSymbolStep
    /\ HasSep(In, decOf(Cur))
    /\ PlainAmount(In, decOf(Cur))
    /\ \/ Cur.Fraction = 2 /\ Len(FracPart(In, decOf(Cur))) = 3
                           /\ Res.err = "ErrTooManyDecimals"
       \/ Cur.Fraction = 0 /\ Len(FracPart(In, decOf(Cur))) = 1 /\ Res.err = Nil

---------------------------------------------------------------------------
(* C3 *)

\* The locals of the call's parse, had it got there
Scanned == parseLocals(p.opt, TrimSpace(In), Cur)

\* The digits of integer_value * 10^fraction_digits + fractional_value: the
\* scanned integer digits followed by the padded fractional digits
ExactDigits ==
    StripZeros(Scanned.f.intDigits \o Scanned.f.fracDigitsRunes
               \o Zeros(Cur.Fraction - Len(Scanned.f.fracDigitsRunes)))

\* C3: a value returned without error is the exact integer
\* sign * (integer_value * 10^fraction_digits + fractional_value) of the
\* scanned digits, whatever their number: never a value wrapped modulo 2^64.
C3_ResultIsExact ==
    (Done /\ Res.err = Nil) =>
        FormatInt64(Res.val) =
            [neg |-> Scanned.sg.sign = -1 /\ ExactDigits # <<>>, digits |-> ExactDigits]

---------------------------------------------------------------------------
(* C4 *)

\* C4: with fraction digits n, integer digits I and k <= n fractional digits
\* F (k = 0 without a separator, or with nothing after it), Parse returns
\* I * 10^n + F * 10^(n-k), whose digits are I, F and n-k zeros; so a zero
\* more after the fractional digits, or a bare separator after the integer
\* digits, changes nothing.
C4_PaddedAmount ==
    LET d == decOf(Cur)
        I == IntPart(In, d)
        F == FracPart(In, d)
        n == Cur.Fraction
    IN (/\ Done
        /\ Resolved.err = Nil
        /\ NoSymbolStep
        /\ PlainAmount(In, d)
        /\ I \o F # <<>>
        /\ Len(F) <= n)
       => /\ Res.err = Nil
          /\ FormatInt64(Res.val) =
               [neg |-> FALSE, digits |-> StripZeros(I \o F \o Zeros(n - Len(F)))]
          /\ (HasSep(In, d) /\ Len(F) < n) =>
               Parse(p.opt, currencies, In \o <<48>>, calls[1].currency) = Res
          /\ ~HasSep(In, d) =>
               Parse(p.opt, currencies, In \o <<d>>, calls[1].currency) = Res

\* "5.5" in a 3-digit currency has come out as 5500
C4_Witness ==
    /\ Done
    /\ Resolved.err = Nil
    /\ NoSymbolStep
    /\ Cur.Fraction = 3
    /\ In = <<53, 46, 53>>
    /\ Res = Ok(FromNat(5500))

---------------------------------------------------------------------------
(* C5 *)

SignRunes == {hyphenSign, plusSign, minusSign}

\* The call got past the checks of Parse, into parse
EnteredParse ==
    /\ TrimSpace(In) # <<>>
    /\ calls[1].currency # <<>>
    /\ Resolved.err = Nil
    /\ p.opt.AcceptSigns \/ DecodeRune(TrimSpace(In)) \notin SignRunes
    /\ p.opt.AllowCurrencySymbol \/ ~containsCurrencySymbol(TrimSpace(In))

ParseOf(input) == Parse(p.opt, currencies, input, calls[1].currency)

\* C5: with AcceptSigns, an input holding no sign that Parse accepts with
\* value v is accepted with -v when prefixed with '-' or the Unicode minus,
\* and with v when prefixed with '+'.
C5_SignPrefix ==
    (/\ Done
     /\ p.opt.AcceptSigns
     /\ Res.err = Nil
     /\ \A i \in 1..Len(In) : In[i] \notin SignRunes)
    => /\ ParseOf(<<hyphenSign>> \o In) = Ok(Neg64(Res.val))
       /\ ParseOf(<<minusSign>> \o In) = Ok(Neg64(Res.val))
       /\ ParseOf(<<plusSign>> \o In) = Res

\* An unsigned input has been accepted with a value other than 0, whose
\* negation differs from it
C5_Witness ==
    /\ Done
    /\ p.opt.AcceptSigns
    /\ Res.err = Nil
    /\ \A i \in 1..Len(In) : In[i] \notin SignRunes
    /\ Res.val # Zero64
    /\ ParseOf(<<minusSign>> \o In).val # Res.val

---------------------------------------------------------------------------
(* C6 *)

\* s with the first occurrence of g taken out: the shortest prefix of s that
\* g follows, and what follows g
CutFirst(s, g) ==
    LET k == CHOOSE k \in 0..(Len(s) - Len(g)) :
                 /\ SubSeq(s, k + 1, k + Len(g)) = g
                 /\ \A j \in 0..(k - 1) : SubSeq(s, j + 1, j + Len(g)) # g
    IN SubSeq(s, 1, k) \o SubSeq(s, k + Len(g) + 1, Len(s))

Occurs(s, g) == \E k \in 0..(Len(s) - Len(g)) : SubSeq(s, k + 1, k + Len(g)) = g

\* The string parse works on: trimmed, NBSP turned into a space
Normal == TrimSpace(ReplaceAllRune(TrimSpace(In), nbsp, space))

WithoutSymbolSwitch == [p.opt EXCEPT !.AllowCurrencySymbol = FALSE]

\* C6: in a call that reaches parse with AllowCurrencySymbol: when the
\* grapheme of the currency is not empty and does not occur in the input, the
\* call fails with ErrInvalidCurrencySymbol; when it occurs, the outcome is
\* that of the rest of parse on the input with the first occurrence taken
\* out; when the grapheme is empty, that of the rest of parse on the input.
C6_SymbolStep ==
    (Done /\ EnteredParse /\ p.opt.AllowCurrencySymbol)
    => IF Cur.Grapheme = <<>>
       THEN Res = parse(WithoutSymbolSwitch, Normal, Cur)
       ELSE IF ~Occurs(Normal, Cur.Grapheme)
       THEN Res.err = "ErrInvalidCurrencySymbol"
       ELSE Res = parse(WithoutSymbolSwitch, CutFirst(Normal, Cur.Grapheme), Cur)

\* An input with the symbol twice has had the first one taken out, and the
\* second one refused as a character
C6_Witness ==
    /\ Done
    /\ EnteredParse
    /\ p.opt.AllowCurrencySymbol
    /\ Cur.Grapheme = <<36>>
    /\ Cardinality({i \in 1..Len(In) : In[i] = 36}) = 2
    /\ Res.err = "ErrBadChar"

---------------------------------------------------------------------------
(* C7 *)

Strict == [p.opt EXCEPT !.StrictGrouping = TRUE]
Lenient == [p.opt EXCEPT !.StrictGrouping = FALSE]
ResStrict == Parse(Strict, currencies, In, calls[1].currency)
ResLenient == Parse(Lenient, currencies, In, calls[1].currency)

\* The string the scan walks
Walked == parseLocals(Lenient, TrimSpace(In), Cur).sg.s

\* In it, the place of the rune taken as the decimal separator (past the end
\* when there is none)
DecPlace(w) ==
    IF Cur.Fraction > 0 /\ HasSep(w, decOf(Cur)) THEN SepAt(w, decOf(Cur)) ELSE Len(w) + 1

GroupingRunes == {32, 44, 46}

\* The grouping characters before the decimal separator
GroupingBefore(w) == {w[i] : i \in {j \in 1..(DecPlace(w) - 1) : w[j] \in GroupingRunes}}

RECURSIVE DigitsIn(_)
\* The digits of a string
DigitsIn(s) ==
    IF s = <<>> THEN <<>>
    ELSE IF Head(s) \in 48..57 THEN <<Head(s)>> \o DigitsIn(Tail(s))
    ELSE DigitsIn(Tail(s))

\* The digits of the amount: those before the decimal separator, those
\* after it, and zeros up to the fraction digits of the currency
AmountDigits(w) ==
    LET before == DigitsIn(SubSeq(w, 1, DecPlace(w) - 1))
        after == DigitsIn(SubSeq(w, DecPlace(w) + 1, Len(w)))
    IN StripZeros(before \o after \o Zeros(Cur.Fraction - Len(after)))

\* The call got as far as the scan loop of parse
ScanReached == EnteredParse /\ Scanned.sym.err = Nil /\ Walked # <<>>

\* A grouped amount: nothing but digits and grouping characters, at least
\* one digit, and after the decimal separator no more digits than the
\* currency has fraction digits
GroupedAmount(w) ==
    /\ \A i \in 1..Len(w) : w[i] \in 48..57 \/ w[i] \in GroupingRunes
    /\ \E i \in 1..Len(w) : w[i] \in 48..57
    /\ Len(DigitsIn(SubSeq(w, DecPlace(w) + 1, Len(w)))) <= Cur.Fraction

\* C7: of every grouped amount that reaches the scan: without
\* StrictGrouping it is accepted, with the value of its digits, the grouping
\* characters dropped.  With StrictGrouping it fails with ErrMixedGrouping
\* when two different grouping characters stand before the decimal
\* separator, and is accepted with the same value when they do not.
C7_StrictGrouping ==
    (Done /\ ScanReached /\ GroupedAmount(Walked)) =>
      LET lenient == ResLenient
          strict == ResStrict
          w == Walked
      IN /\ Res = (IF p.opt.StrictGrouping THEN strict ELSE lenient)
         /\ lenient.err = Nil
         /\ FormatInt64(lenient.val).digits = AmountDigits(w)
         /\ IF Cardinality(GroupingBefore(w)) >= 2
            THEN strict.err = "ErrMixedGrouping"
            ELSE strict = lenient

\* A strict parser has refused a grouped amount of mixed grouping that a
\* lenient one accepts
C7_Witness ==
    /\ Done
    /\ p.opt.StrictGrouping
    /\ ScanReached
    /\ GroupedAmount(Walked)
    /\ ResLenient.err = Nil
    /\ Cardinality(GroupingBefore(Walked)) >= 2
    /\ Res.err = "ErrMixedGrouping"

---------------------------------------------------------------------------
(* C10 *)

\* The call has an input and a currency, both switches are off, and the
\* input begins with a sign and holds a currency symbol
SignAndSymbol ==
    /\ Done
    /\ TrimSpace(In) # <<>>
    /\ calls[1].currency # <<>>
    /\ Resolved.err = Nil
    /\ ~p.opt.AllowCurrencySymbol
    /\ ~p.opt.AcceptSigns
    /\ DecodeRune(TrimSpace(In)) \in SignRunes
    /\ containsCurrencySymbol(TrimSpace(In))

\* C10, as stated: the symbol gate comes first, and such an input fails with
\* ErrCurrencySymbolNotAllowed.
C10_SymbolGateFirst == SignAndSymbol => Res.err = "ErrCurrencySymbolNotAllowed"

\* C10, amended: the sign gate comes first, and such an input fails with
\* ErrSignsNotAllowed.
C10_SignGateFirst == SignAndSymbol => Res.err = "ErrSignsNotAllowed"

\* "-$5" has been refused by a parser with both switches off
C10_Witness == SignAndSymbol /\ In = <<45, 36, 53>> /\ Res.err = "ErrSignsNotAllowed"

---------------------------------------------------------------------------
(* C8 *)

AsciiLetters == (65..90) \cup (97..122)

\* C8: in a call with an input and a query that is not empty, the trimmed
\* query, when it is 3 ASCII letters, resolves if the table has the code (in
\* upper case) and fails with ErrInvalidISO if not; when it is one or more
\* ASCII digits, it resolves if the table has the numeric code and fails with
\* ErrInvalidNumericCode if not; in any other shape it fails with
\* ErrInvalidCurrencyQuery.
C8_QueryShapes ==
    LET q == TrimSpace(calls[1].currency)
        alpha == Len(q) = 3 /\ \A i \in 1..Len(q) : q[i] \in AsciiLetters
        numeric == Len(q) >= 1 /\ \A i \in 1..Len(q) : q[i] \in 48..57
        upper == [i \in 1..Len(q) |-> IF q[i] \in 97..122 THEN q[i] - 32 ELSE q[i]]
        resolved == Res.err \notin
                      {"ErrInvalidISO", "ErrInvalidNumericCode", "ErrInvalidCurrencyQuery"}
    IN (Done /\ TrimSpace(In) # <<>> /\ calls[1].currency # <<>>)
       => /\ alpha =>
               IF \E c \in currencies : c.Code = upper
               THEN resolved ELSE Res.err = "ErrInvalidISO"
          /\ numeric =>
               IF \E c \in currencies : c.NumericCode = q
               THEN resolved ELSE Res.err = "ErrInvalidNumericCode"
          /\ (~alpha /\ ~numeric) => Res.err = "ErrInvalidCurrencyQuery"

\* A query of digits that is no numeric code of the table has been refused
C8_Witness ==
    /\ Done
    /\ calls[1].currency = <<56, 52, 52>>
    /\ Res.err = "ErrInvalidNumericCode"

---------------------------------------------------------------------------
(* C9 *)

\* C9: whatever the interleaving of the two calls, a call that has returned
\* has returned what Parse returns for its input and query on this parser
\* with no other call around; and no step of a call changes the options of
\* the parser or the currency table.
C9_CallsDoNotInterfere ==
    /\ [](\A g \in Goroutines :
            calls[g].pc = "done" =>
               calls[g].res = Parse(p.opt, currencies, calls[g].input, calls[g].currency))
    /\ [][p.constructed => (p' = p /\ currencies' = currencies)]_vars

\* Both calls have returned, each a value of its own, after scanning
C9_Witness ==
    /\ \A g \in Goroutines : calls[g].pc = "done" /\ calls[g].res.err = Nil
    /\ calls[1].res # calls[2].res

---------------------------------------------------------------------------
(* C11 *)

(* Inputs of digits and separators for strict and lenient parsers *)
MaxScanLen == 5
ScanAlphabet == {53, 46, 44}
ScanQueries == {USD, JPY, CLF}
ScanSamples == {<<49, 46, 50, 46, 51>>} \X {EUR, USD}

InitScan ==
    InitWith({<<>>, <<WithStrictGrouping(TRUE)>>},
             (Strings(ScanAlphabet, MaxScanLen) \X ScanQueries) \cup ScanSamples)

SpecScan == InitScan /\ [][Next]_vars

\* The locals of the scan before it reads the i-th rune, and after
ScanBefore(i) ==
    ScanFrom(p.opt, decOf(Cur), Cur.Fraction, SubSeq(Walked, 1, i - 1), 1, ScanInit)
ScanAfter(i) == ScanRune(p.opt, decOf(Cur), Cur.Fraction, ScanBefore(i), Walked[i])

\* A decimal separator stands before the i-th rune, in a currency with
\* fraction digits
DecSeenBefore(i) ==
    Cur.Fraction > 0 /\ \E j \in 1..(i - 1) : Walked[j] = decOf(Cur)

\* The i-th rune is a decimal separator that is not the first one, or one
\* of a currency without fraction digits
LaterSeparator(i) ==
    Walked[i] = decOf(Cur) /\ (DecSeenBefore(i) \/ Cur.Fraction = 0)

\* The scan passes over the i-th rune: no error, no digit, no decimal mark
SkippedAt(i) ==
    /\ ScanAfter(i).err = Nil
    /\ ScanAfter(i).intDigits = ScanBefore(i).intDigits
    /\ ScanAfter(i).fracDigitsRunes = ScanBefore(i).fracDigitsRunes
    /\ ScanAfter(i).hasDec = ScanBefore(i).hasDec

\* The grouping character nearest before the i-th rune is another one
OtherGroupingBefore(i) ==
    \E j \in 1..(i - 1) :
        /\ Walked[j] \in GroupingRunes
        /\ Walked[j] # Walked[i]
        /\ \A k \in (j + 1)..(i - 1) : Walked[k] \notin GroupingRunes

\* What the scan does with the runes that are not later separators: a digit
\* goes to the fractional part once the decimal separator is seen and to
\* the integer part otherwise, no grouping character after the decimal
\* separator gives ErrMixedGrouping, the call returns the error of the
\* scan, and "1.2.3" is 123 for two fraction digits and '.'
ScanAround ==
    /\ \A i \in 1..Len(Walked) :
          ScanBefore(i).err = Nil =>
            /\ (Walked[i] \in 48..57 /\ DecSeenBefore(i)) =>
                  /\ ScanAfter(i).fracDigitsRunes =
                        Append(ScanBefore(i).fracDigitsRunes, Walked[i])
                  /\ ScanAfter(i).intDigits = ScanBefore(i).intDigits
            /\ (Walked[i] \in 48..57 /\ ~DecSeenBefore(i)) =>
                  /\ ScanAfter(i).intDigits = Append(ScanBefore(i).intDigits, Walked[i])
                  /\ ScanAfter(i).fracDigitsRunes = <<>>
            /\ (Walked[i] \in GroupingRunes /\ DecSeenBefore(i)) => SkippedAt(i)
    /\ Scanned.f.err # Nil => Res.err = Scanned.f.err
    /\ (In = <<49, 46, 50, 46, 51>> /\ Cur.Fraction = 2 /\ decOf(Cur) = 46) =>
          Res = Ok(FromInt(123))

\* C11 as stated: in the scan, a decimal separator after the first one, or
\* any decimal separator of a currency without fraction digits, is never
\* rejected but skipped like a grouping character; the digits after it go
\* on into the fractional part (the integer part without fraction digits);
\* after the decimal separator no grouping character gives
\* ErrMixedGrouping, even with StrictGrouping; "1.2.3" returns 123.
C11_LaterSeparatorSkipped ==
    (Done /\ ScanReached) =>
      /\ \A i \in 1..Len(Walked) :
            (ScanBefore(i).err = Nil /\ LaterSeparator(i)) => SkippedAt(i)
      /\ ScanAround

\* C11, amended: the same, except that for a currency without fraction
\* digits the decimal separator is a grouping character in full: with
\* StrictGrouping it is rejected with ErrMixedGrouping when the grouping
\* character before it is a different one, and skipped otherwise.
C11_LaterSeparatorIsGrouping ==
    (Done /\ ScanReached) =>
      /\ \A i \in 1..Len(Walked) :
            (ScanBefore(i).err = Nil /\ LaterSeparator(i)) =>
              IF p.opt.StrictGrouping /\ Cur.Fraction = 0 /\ OtherGroupingBefore(i)
              THEN ScanAfter(i).err = "ErrMixedGrouping" /\ Res.err = "ErrMixedGrouping"
              ELSE SkippedAt(i)
      /\ ScanAround

\* A strict parser has returned 123 for "1.2.3" in a currency of two
\* fraction digits whose decimal separator is '.'
C11_Witness ==
    /\ Done
    /\ p.opt.StrictGrouping
    /\ In = <<49, 46, 50, 46, 51>>
    /\ Cur.Fraction = 2 /\ decOf(Cur) = 46
    /\ Res = Ok(FromInt(123))

---------------------------------------------------------------------------
(* C12 *)

(* The same input given to ParseToMinor and to a parser of default options *)
MaxLegacyLen == 5
LegacyAlphabet == {53, 46, 44, 45}
LegacyQueries == {USD, JPY}
LegacySamples ==
    {<<49, 48, 48, 44, 48, 48, 48, 46, 48, 48>>, <<49, 48, 48, 32, 48, 48, 48, 46, 48, 48>>}
        \X {EUR}
    \cup {<<<<50, 44, 50, 56>>, CLF>>, <<<<53, 51, 57, 46, 55, 50>>, LYD>>,
          <<<<49, 48, 48, 46, 48>>, BGN>>, <<<<49, 46, 50, 46, 51>>, EUR>>,
          <<MaxCapDigits, JPY>>, <<LargeCapDigits, JPY>>,
          <<MaxUintDigits \o <<57, 97>>, JPY>>, <<<<53, 46, 2406>>, USD>>}

InitLegacy ==
    /\ opts = <<>>
    /\ p = [constructed |-> FALSE, opt |-> ZeroOptions]
    /\ currencies = CurrencyTable
    /\ \E c \in (Strings(LegacyAlphabet, MaxLegacyLen) \X LegacyQueries) \cup LegacySamples :
          calls = [g \in Goroutines |->
                      Call(IF g = 1 THEN "ready" ELSE "legacy", c[1], c[2])]

\* ParseToMinor(input, isoCode), the whole call
ParseToMinorCall(g) ==
    /\ calls[g].pc = "legacy"
    /\ \E mem \in BOOLEAN :
         calls' = [calls EXCEPT ![g].pc = "done",
                                ![g].res = ParseToMinor(currencies, calls[g].input,
                                                        calls[g].currency, mem)]
    /\ UNCHANGED <<opts, p, currencies>>

NextLegacy ==
    \/ NewAmountParser
    \/ \E g \in Goroutines : ParseCall(g)
    \/ \E g \in Goroutines : ParseToMinorCall(g)

SpecLegacy == InitLegacy /\ [][NextLegacy]_vars

\* Both calls have returned, and the currency is an alpha-3 code of the table
BothDone ==
    /\ calls[1].pc = "done" /\ calls[2].pc = "done"
    /\ isAlpha3(calls[1].currency)
    /\ GetCurrency(currencies, calls[1].currency).found

Legacy == calls[2].res

\* The input is digits, one decimal separator, and more digits than the
\* currency has fraction digits
TooManyFractionDigits ==
    LET s == TrimSpace(In)
        d == decOf(Cur)
    IN /\ HasSep(s, d)
       /\ PlainAmount(s, d)
       /\ Len(FracPart(s, d)) > Cur.Fraction

\* C12: ParseToMinor and Parse with default options agree on every input
\* and every alpha-3 code of the table: when both return a value without
\* error the values are equal, and an input with more fractional digits
\* than the currency allows is accepted by both or rejected by both.
C12_LegacyAgrees ==
    BothDone =>
      /\ (Res.err = Nil /\ Legacy.err = Nil) => Res.val = Legacy.val
      /\ TooManyFractionDigits => ((Res.err = Nil) <=> (Legacy.err = Nil))

============================================================================
